---- MODULE Spec2Model ----
(***************************************************************************)
(* Model of the fylex project browser (src/src/main.rs).                   *)
(*                                                                         *)
(* Strings are sequences of ASCII codes (<<97>> is "a", <<82>> is "R"),    *)
(* Option<T> is a sequence of length 0 (None) or 1 (Some), Vec indices are *)
(* 0-based as in the source.  A project's path is ROOT joined with a base  *)
(* name, so a path is modelled by its base name.                           *)
(***************************************************************************)
EXTENDS Integers, Sequences, FiniteSets, TLC

VARIABLES
    state,        \* AppState: projects, filtered, selected, filter_text
    fs,           \* the entries of ROOT: base name -> entry
    env,          \* what the surroundings answer: root listable, git client
    pc,           \* "start" | "browsing" | "prompting" | "exited"
    buf,          \* prompt_input's edit buffer
    display,      \* "off" | "curses" | "restored"
    flash,        \* message flashed by the last completed key handler
    exit_status,  \* "running" | "ok" | "error" | "exec"
    shell_dir,    \* Option: directory the shell was started in
    handoff_trace \* what open_in_terminal did, in order, in the last key handler

vars == <<state, fs, env, pc, buf, display, flash, exit_status, shell_dir, handoff_trace>>

----------------------------------------------------------------------------
(* Bounds of the model *)

MaxFilterLen == 2
MaxBufLen == 2
MaxFsEntries == 3
MaxRows == 7

----------------------------------------------------------------------------
(* Key codes *)

KEY_QUIT == 81
KEY_NEW == 78
KEY_LF == 10
KEY_ESC == 27
KEY_DEL == 127
KEY_DOWN == 258
KEY_UP == 259
KEY_BACKSPACE == 263
KEY_ENTER == 343
KEY_TAB == 9
CH_SPACE == 32
CH_COMMA == 44
CH_R == 82
CH_a == 97
CH_b == 98
CH_r == 114

\* The key events the model feeds to getch().
Keys ==
    {KEY_QUIT, KEY_NEW, KEY_LF, KEY_ENTER, KEY_ESC, KEY_DEL, KEY_BACKSPACE,
     KEY_DOWN, KEY_UP, KEY_TAB, CH_SPACE, CH_R, CH_a}

\* Inside the prompt the letters Q and N are ordinary text; the model types
\* names over a and space only.
PromptKeys == Keys \ {KEY_QUIT, KEY_NEW, CH_R}

----------------------------------------------------------------------------
(* Option and string helpers *)

None == <<>>
Some(x) == <<x>>

Range(s) == {s[i] : i \in DOMAIN s}

\* str::to_lowercase on ASCII text
to_lowercase(s) ==
    [i \in DOMAIN s |-> IF s[i] >= 65 /\ s[i] <= 90 THEN s[i] + 32 ELSE s[i]]

\* str::contains: f is a contiguous substring of hay
contains(hay, f) ==
    \E i \in 0..(Len(hay) - Len(f)) : SubSeq(hay, i + 1, i + Len(f)) = f

\* [String]::join(sep)
RECURSIVE join(_, _)
join(parts, sep) ==
    IF parts = <<>> THEN <<>>
    ELSE IF Len(parts) = 1 THEN parts[1]
    ELSE parts[1] \o sep \o join(Tail(parts), sep)

\* String::pop: drop the last character, if any
pop(s) == IF s = <<>> THEN s ELSE SubSeq(s, 1, Len(s) - 1)

\* str::trim on ASCII text: strip leading and trailing white space
RECURSIVE trim(_)
trim(s) ==
    IF s = <<>> THEN s
    ELSE IF Head(s) = CH_SPACE THEN trim(Tail(s))
    ELSE IF s[Len(s)] = CH_SPACE THEN trim(SubSeq(s, 1, Len(s) - 1))
    ELSE s

\* usize::saturating_sub
saturating_sub(a, b) == IF a >= b THEN a - b ELSE 0

\* Ord for file names: byte-wise lexicographic order
RECURSIVE NameLess(_, _)
NameLess(a, b) ==
    IF b = <<>> THEN FALSE
    ELSE IF a = <<>> THEN TRUE
    ELSE IF Head(a) # Head(b) THEN Head(a) < Head(b)
    ELSE NameLess(Tail(a), Tail(b))

----------------------------------------------------------------------------
(* The file system under ROOT and its surroundings *)

NoCfgFile == [st |-> "absent", name |-> <<>>, tags |-> <<>>]
CfgFile(name, tags) == [st |-> "valid", name |-> name, tags |-> tags]
BadCfgFile(st) == [st |-> st, name |-> <<>>, tags |-> <<>>]

Dir(cfg, repo) == [kind |-> "dir", cfg |-> cfg, repo |-> repo]
Other(kind) == [kind |-> kind, cfg |-> NoCfgFile, repo |-> "none"]

\* The file systems a session may start from.
InitFSs ==
    { <<>>,
      \* "R" with config {name: "b", tags: ["Ra", "a"]}, clean repository;
      \* "a" without config or repository
      (<<CH_R>> :> Dir(CfgFile(<<CH_b>>, << <<CH_R, CH_a>>, <<CH_a>> >>), "clean"))
        @@ (<<CH_a>> :> Dir(NoCfgFile, "none")),
      \* "ar" with unparseable config and a broken repository, "a" with an
      \* unreadable config and pending changes, and a plain file "b"
      (<<CH_a, CH_r>> :> Dir(BadCfgFile("invalid"), "corrupt"))
        @@ (<<CH_a>> :> Dir(BadCfgFile("unreadable"), "dirty"))
        @@ (<<CH_b>> :> Other("file")),
      \* one entry whose directory entry cannot be read
      (<<CH_a>> :> Dir(NoCfgFile, "none")) @@ (<<CH_b>> :> Other("direrr")),
      \* one entry whose file type cannot be read
      (<<CH_R>> :> Dir(CfgFile(<<CH_a>>, <<>>), "clean")) @@ (<<CH_b>> :> Other("typeerr"))
    }

GitModes == {"ok", "missing", "failing"}
Envs == [listable : BOOLEAN, git : GitModes]

----------------------------------------------------------------------------
(* ConfigStore and VcsProbe *)

Ok(v) == [ok |-> TRUE, v |-> v]
Err == [ok |-> FALSE, v |-> <<>>]

\* read_config: Ok(None) without the file, Err when it cannot be read or
\* parsed, Ok(Some(cfg)) otherwise
read_config(e) ==
    IF e.cfg.st = "absent" THEN Ok(None)
    ELSE IF e.cfg.st \in {"unreadable", "invalid"} THEN Err
    ELSE Ok(Some([name |-> e.cfg.name, tags |-> e.cfg.tags]))

\* Result::ok().flatten()
ok_flatten(r) == IF r.ok THEN r.v ELSE None

\* git_status_color: None without the marker or when the client cannot be
\* started; otherwise decided by whether stdout is empty.  A client that
\* exits with an error prints to stderr, so its stdout is empty.
git_status_color(e, git) ==
    IF e.repo = "none" THEN None
    ELSE IF git = "missing" THEN None
    ELSE LET stdout_is_empty == git = "failing" \/ e.repo \in {"clean", "corrupt"}
         IN IF stdout_is_empty THEN Some(1) ELSE Some(2)

----------------------------------------------------------------------------
(* ProjectCatalog *)

\* fs::read_dir yields the entries in an unspecified order
RECURSIVE read_dir(_)
read_dir(names) ==
    IF names = {} THEN <<>>
    ELSE LET n == CHOOSE x \in names : TRUE IN <<n>> \o read_dir(names \ {n})

\* Vec::sort_by on file names, as an insertion sort
RECURSIVE insert_sorted(_, _)
insert_sorted(v, p) ==
    IF v = <<>> THEN <<p>>
    ELSE IF NameLess(p.path, Head(v).path) THEN <<p>> \o v
    ELSE <<Head(v)>> \o insert_sorted(Tail(v), p)

RECURSIVE sort_by_file_name(_)
sort_by_file_name(v) ==
    IF v = <<>> THEN <<>>
    ELSE insert_sorted(sort_by_file_name(Tail(v)), Head(v))

\* The loop body of scan_projects over the listing: Err on the first entry
\* whose entry or file type cannot be read, non-directories skipped.
RECURSIVE scan_entries(_, _, _, _)
scan_entries(f, git, listing, v) ==
    IF listing = <<>> THEN Ok(v)
    ELSE LET n == Head(listing)
             e == f[n]
         IN IF e.kind = "direrr" THEN Err
            ELSE IF e.kind = "typeerr" THEN Err
            ELSE IF e.kind # "dir" THEN scan_entries(f, git, Tail(listing), v)
            ELSE scan_entries(f, git, Tail(listing),
                     Append(v, [path |-> n,
                                cfg |-> ok_flatten(read_config(e)),
                                git_state |-> git_status_color(e, git)]))

scan_projects(f, e) ==
    IF ~e.listable THEN Err
    ELSE LET r == scan_entries(f, e.git, read_dir(DOMAIN f), <<>>)
         IN IF r.ok THEN Ok(sort_by_file_name(r.v)) ELSE Err

\* write_default_config + write_config: the sidecar with the directory's
\* base name; an untracked file makes a clean repository report changes
write_default_config(f, dir) ==
    [f EXCEPT ![dir] = [@ EXCEPT !.cfg = CfgFile(dir, <<>>),
                                 !.repo = IF @ = "clean" THEN "dirty" ELSE @]]

\* a create that skips the dir.exists() test
create_new_project_overwrite(f, git, name) ==
    LET made == IF name \in DOMAIN f
                THEN [f EXCEPT ![name] = Dir(@.cfg, @.repo)]
                ELSE f @@ (name :> Dir(NoCfgFile, "none"))
    IN IF git = "missing" THEN [res |-> "git_err", fs |-> made]
       ELSE LET inited == IF git = "ok"
                          THEN [made EXCEPT ![name].repo = "clean"]
                          ELSE made
            IN [res |-> "ok", fs |-> write_default_config(inited, name)]

\* create_new_project: [res, fs]
create_new_project(f, git, name) ==
    IF name \in DOMAIN f THEN [res |-> "exists", fs |-> f]
    ELSE LET made == f @@ (name :> Dir(NoCfgFile, "none"))
         IN IF git = "missing" THEN [res |-> "git_err", fs |-> made]
            ELSE LET inited == IF git = "ok"
                               THEN [made EXCEPT ![name].repo = "clean"]
                               ELSE made
                 IN [res |-> "ok", fs |-> write_default_config(inited, name)]

----------------------------------------------------------------------------
(* SessionState *)

AppStateDefault ==
    [projects |-> <<>>, filtered |-> <<>>, selected |-> 0, filter_text |-> <<>>]

\* Vec::get with a 0-based index
get(v, i) == IF i >= 0 /\ i < Len(v) THEN Some(v[i + 1]) ELSE None

\* a lookup that takes the cursor for a catalog index
current_project_unfiltered(s) == get(s.projects, s.selected)

current_project(s) ==
    LET i == get(s.filtered, s.selected)
    IN IF i = None THEN None ELSE get(s.projects, i[1])

\* a haystack that leaves the tags out
haystack_name_only(p) ==
    LET name == IF p.cfg # None THEN to_lowercase(p.cfg[1].name)
                ELSE to_lowercase(p.path)
    IN name \o <<CH_SPACE>>

\* the haystack rebuild_filter builds for one project
haystack(p) ==
    LET name == IF p.cfg # None THEN to_lowercase(p.cfg[1].name)
                ELSE to_lowercase(p.path)
        tags == IF p.cfg # None
                THEN join([i \in DOMAIN p.cfg[1].tags |-> to_lowercase(p.cfg[1].tags[i])],
                          <<CH_COMMA>>)
                ELSE <<>>
    IN name \o <<CH_SPACE>> \o tags

RECURSIVE filter_loop(_, _, _, _)

\* a loop that pushes to the front, so later projects come first
RECURSIVE filter_loop_front(_, _, _, _)
filter_loop_front(projects, f, i, filtered) ==
    IF i >= Len(projects) THEN filtered
    ELSE filter_loop_front(projects, f, i + 1,
             IF contains(haystack(projects[i + 1]), f)
             THEN <<i>> \o filtered ELSE filtered)

\* the for loop of rebuild_filter, from index i on
filter_loop(projects, f, i, filtered) ==
    IF i >= Len(projects) THEN filtered
    ELSE filter_loop(projects, f, i + 1,
             IF contains(haystack(projects[i + 1]), f)
             THEN Append(filtered, i) ELSE filtered)

\* a clamp that lets the cursor stay where it was
clamp_selected_stale(selected, len) == selected

\* the clamp that ends rebuild_filter
clamp_selected(selected, len) ==
    IF selected >= len THEN saturating_sub(len, 1) ELSE selected

\* a rebuild that forgets filtered.clear()
rebuild_filter_noclear(s) ==
    LET f == to_lowercase(s.filter_text)
        filtered == filter_loop(s.projects, f, 0, s.filtered)
    IN [s EXCEPT !.filtered = filtered,
                 !.selected = clamp_selected(s.selected, Len(filtered))]

rebuild_filter(s) ==
    LET f == to_lowercase(s.filter_text)
        cleared == SubSeq(s.filtered, 1, 0)
        filtered == filter_loop(s.projects, f, 0, cleared)
    IN [s EXCEPT !.filtered = filtered,
                 !.selected = clamp_selected(s.selected, Len(filtered))]

----------------------------------------------------------------------------
(* Renderer *)

\* first screen line of the project list
list_top == 3

\* the label of a list row: the config's name, else the directory's base name
row_label(p) == IF p.cfg # None THEN p.cfg[1].name ELSE p.path

\* the version-control suffix of a list row
row_suffix(p) ==
    IF p.git_state = Some(1) THEN " | V"
    ELSE IF p.git_state = Some(2) THEN " | M"
    ELSE ""

RECURSIVE draw_rows(_, _, _)

\* a list loop that highlights the row whose catalog index equals the cursor
RECURSIVE draw_rows_by_index(_, _, _)
draw_rows_by_index(s, rows, i) ==
    IF i >= Len(s.filtered) THEN <<>>
    ELSE LET idx == s.filtered[i + 1]
             p == get(s.projects, idx)
             line == list_top + i
         IN IF p = None THEN draw_rows_by_index(s, rows, i + 1)
            ELSE IF line >= rows - 1 THEN <<>>
            ELSE << [line |-> line, idx |-> idx, label |-> row_label(p[1]),
                     suffix |-> row_suffix(p[1]),
                     highlighted |-> (idx = s.selected)] >>
                 \o draw_rows_by_index(s, rows, i + 1)

\* the list loop of draw on a terminal of `rows` lines, from row i on: one
\* screen line per visible project until the line reaches rows - 1
draw_rows(s, rows, i) ==
    IF i >= Len(s.filtered) THEN <<>>
    ELSE LET idx == s.filtered[i + 1]
             p == get(s.projects, idx)
             line == list_top + i
         IN IF p = None THEN draw_rows(s, rows, i + 1)
            ELSE IF line >= rows - 1 THEN <<>>
            ELSE << [line |-> line, idx |-> idx, label |-> row_label(p[1]),
                     suffix |-> row_suffix(p[1]),
                     highlighted |-> (i = s.selected)] >>
                 \o draw_rows(s, rows, i + 1)

\* the detail pane of draw: the current project's name, path and tags
draw_detail(s) ==
    LET p == current_project(s)
    IN IF p = None THEN None
       ELSE Some([name |-> IF p[1].cfg # None THEN p[1].cfg[1].name
                           ELSE "(No config file set)",
                  path |-> p[1].path,
                  tags |-> IF p[1].cfg # None THEN p[1].cfg[1].tags ELSE <<>>])

----------------------------------------------------------------------------
(* InputLoop *)

\* which arm of main's match takes the key
MainArm(ch) ==
    IF ch = KEY_QUIT THEN "quit"
    ELSE IF ch \in {KEY_DEL, KEY_BACKSPACE} THEN "backspace"
    ELSE IF ch = KEY_UP THEN "up"
    ELSE IF ch = KEY_DOWN THEN "down"
    ELSE IF ch \in {KEY_LF, KEY_ENTER} THEN "enter"
    ELSE IF ch = KEY_NEW THEN "new"
    ELSE IF ch >= 32 /\ ch <= 126 THEN "char"
    ELSE "other"

\* which arm of prompt_input's match takes the key
PromptArm(ch) ==
    IF ch = KEY_LF THEN "submit"
    ELSE IF ch = KEY_ESC THEN "cancel"
    ELSE IF ch \in {KEY_DEL, KEY_BACKSPACE} THEN "backspace"
    ELSE IF ch >= 32 /\ ch <= 126 THEN "char"
    ELSE "other"

Init ==
    /\ state = AppStateDefault
    /\ fs \in InitFSs
    /\ env \in Envs
    /\ pc = "start"
    /\ buf = <<>>
    /\ display = "off"
    /\ flash = ""
    /\ exit_status = "running"
    /\ shell_dir = None
    /\ handoff_trace = <<>>

\* a main that calls initscr before the first scan
Startup_init_first ==
    /\ pc = "start"
    /\ display' = "curses"
    /\ LET r == scan_projects(fs, env)
       IN IF r.ok
          THEN /\ state' = rebuild_filter([state EXCEPT !.projects = r.v])
               /\ pc' = "browsing"
               /\ UNCHANGED exit_status
          ELSE /\ pc' = "exited"
               /\ exit_status' = "error"
               /\ UNCHANGED state
    /\ UNCHANGED <<fs, env, buf, flash, shell_dir, handoff_trace>>

\* main up to the first getch: scan, filter, initscr, first draw
Startup ==
    /\ pc = "start"
    /\ LET r == scan_projects(fs, env)
       IN IF r.ok
          THEN /\ state' = rebuild_filter([state EXCEPT !.projects = r.v])
               /\ display' = "curses"
               /\ pc' = "browsing"
               /\ UNCHANGED exit_status
          ELSE /\ pc' = "exited"
               /\ exit_status' = "error"
               /\ UNCHANGED <<state, display>>
    /\ UNCHANGED <<fs, env, buf, flash, shell_dir, handoff_trace>>

\* 81 => break; endwin(); Ok(())
KeyQuit ==
    /\ pc = "browsing"
    /\ \E ch \in Keys : MainArm(ch) = "quit"
    /\ pc' = "exited"
    /\ display' = "restored"
    /\ exit_status' = "ok"
    /\ flash' = ""
    /\ handoff_trace' = <<>>
    /\ UNCHANGED <<state, fs, env, buf, shell_dir>>

\* a backspace arm that forgets to re-filter
key_backspace_stale(s) == [s EXCEPT !.filter_text = pop(@)]

\* 127 | KEY_BACKSPACE: filter_text.pop(); rebuild_filter
key_backspace(s) == rebuild_filter([s EXCEPT !.filter_text = pop(@)])

KeyBackspace ==
    /\ pc = "browsing"
    /\ \E ch \in Keys : MainArm(ch) = "backspace"
    /\ state' = key_backspace(state)
    /\ flash' = ""
    /\ handoff_trace' = <<>>
    /\ UNCHANGED <<fs, env, pc, buf, display, exit_status, shell_dir>>

KeyUp ==
    /\ pc = "browsing"
    /\ \E ch \in Keys : MainArm(ch) = "up"
    /\ state' = IF state.selected > 0
                THEN [state EXCEPT !.selected = @ - 1]
                ELSE state
    /\ flash' = ""
    /\ handoff_trace' = <<>>
    /\ UNCHANGED <<fs, env, pc, buf, display, exit_status, shell_dir>>

\* a down arm that wraps to the first row
KeyDown_wrap ==
    /\ pc = "browsing"
    /\ \E ch \in Keys : MainArm(ch) = "down"
    /\ state' = IF state.selected + 1 < Len(state.filtered)
                THEN [state EXCEPT !.selected = @ + 1]
                ELSE [state EXCEPT !.selected = 0]
    /\ flash' = ""
    /\ handoff_trace' = <<>>
    /\ UNCHANGED <<fs, env, pc, buf, display, exit_status, shell_dir>>

KeyDown ==
    /\ pc = "browsing"
    /\ \E ch \in Keys : MainArm(ch) = "down"
    /\ state' = IF state.selected + 1 < Len(state.filtered)
                THEN [state EXCEPT !.selected = @ + 1]
                ELSE state
    /\ flash' = ""
    /\ handoff_trace' = <<>>
    /\ UNCHANGED <<fs, env, pc, buf, display, exit_status, shell_dir>>

\* a handoff that clears the screen before it leaves curses mode
open_in_terminal_write_first(path, exec_ok) ==
    [events |-> <<"write", "endwin", "exec">>,
     dir |-> path,
     res |-> IF exec_ok THEN "replaced" ELSE "err"]

\* open_in_terminal: endwin(), then the clear-screen sequence is printed and
\* flushed, then exec, which either replaces the process or returns an error
open_in_terminal(path, exec_ok) ==
    [events |-> <<"endwin", "write", "exec">>,
     dir |-> path,
     res |-> IF exec_ok THEN "replaced" ELSE "err"]

\* an enter arm that propagates the handoff error out of main
KeyEnter_propagate ==
    /\ pc = "browsing"
    /\ \E ch \in Keys : MainArm(ch) = "enter"
    /\ LET p == current_project(state)
       IN IF p = None
          THEN /\ flash' = ""
               /\ handoff_trace' = <<>>
               /\ UNCHANGED <<pc, display, exit_status, shell_dir>>
          ELSE \E exec_ok \in BOOLEAN :
                 LET h == open_in_terminal(p[1].path, exec_ok)
                 IN /\ handoff_trace' = h.events
                    /\ display' = "restored"
                    /\ pc' = "exited"
                    /\ flash' = ""
                    /\ IF h.res = "replaced"
                       THEN /\ exit_status' = "exec"
                            /\ shell_dir' = Some(h.dir)
                       ELSE /\ exit_status' = "error"
                            /\ UNCHANGED shell_dir
    /\ UNCHANGED <<state, fs, env, buf>>

\* 10 | KEY_ENTER: open_in_terminal on the current project, if any
KeyEnter ==
    /\ pc = "browsing"
    /\ \E ch \in Keys : MainArm(ch) = "enter"
    /\ LET p == current_project(state)
       IN IF p = None
          THEN /\ flash' = ""
               /\ handoff_trace' = <<>>
               /\ UNCHANGED <<pc, display, exit_status, shell_dir>>
          ELSE \E exec_ok \in BOOLEAN :
                 LET h == open_in_terminal(p[1].path, exec_ok)
                 IN /\ handoff_trace' = h.events
                    /\ IF h.res = "replaced"
                       THEN /\ display' = "restored"
                            /\ pc' = "exited"
                            /\ exit_status' = "exec"
                            /\ shell_dir' = Some(h.dir)
                            /\ flash' = ""
                       ELSE \* flash_error's refresh resumes curses mode
                            /\ display' = "curses"
                            /\ flash' = "Terminal open failed"
                            /\ UNCHANGED <<pc, exit_status, shell_dir>>
    /\ UNCHANGED <<state, fs, env, buf>>

\* 78: enter prompt_input("New project name: ", "")
KeyNew ==
    /\ pc = "browsing"
    /\ \E ch \in Keys : MainArm(ch) = "new"
    /\ pc' = "prompting"
    /\ buf' = <<>>
    /\ flash' = ""
    /\ handoff_trace' = <<>>
    /\ UNCHANGED <<state, fs, env, display, exit_status, shell_dir>>

\* c if (32..=126).contains(&c): filter_text.push(c); rebuild_filter
key_char(s, ch) == rebuild_filter([s EXCEPT !.filter_text = Append(@, ch)])

\* a printable arm that forgets to re-filter
KeyCharOf_stale(ch) ==
    /\ pc = "browsing"
    /\ Len(state.filter_text) < MaxFilterLen
    /\ MainArm(ch) = "char"
    /\ state' = [state EXCEPT !.filter_text = Append(@, ch)]
    /\ flash' = ""
    /\ handoff_trace' = <<>>
    /\ UNCHANGED <<fs, env, pc, buf, display, exit_status, shell_dir>>

\* the printable arm taking the key ch
KeyCharOf(ch) ==
    /\ pc = "browsing"
    /\ Len(state.filter_text) < MaxFilterLen
    /\ MainArm(ch) = "char"
    /\ state' = key_char(state, ch)
    /\ flash' = ""
    /\ handoff_trace' = <<>>
    /\ UNCHANGED <<fs, env, pc, buf, display, exit_status, shell_dir>>

KeyChar == \E ch \in Keys : KeyCharOf(ch)

KeyOther ==
    /\ pc = "browsing"
    /\ \E ch \in Keys : MainArm(ch) = "other"
    /\ flash' = ""
    /\ handoff_trace' = <<>>
    /\ UNCHANGED <<state, fs, env, pc, buf, display, exit_status, shell_dir>>

PromptChar ==
    /\ pc = "prompting"
    /\ Len(buf) < MaxBufLen
    /\ \E ch \in PromptKeys :
         /\ PromptArm(ch) = "char"
         /\ buf' = Append(buf, ch)
    /\ UNCHANGED <<state, fs, env, pc, display, flash, exit_status, shell_dir, handoff_trace>>

PromptBackspace ==
    /\ pc = "prompting"
    /\ \E ch \in PromptKeys : PromptArm(ch) = "backspace"
    /\ buf' = pop(buf)
    /\ UNCHANGED <<state, fs, env, pc, display, flash, exit_status, shell_dir, handoff_trace>>

PromptOther ==
    /\ pc = "prompting"
    /\ \E ch \in PromptKeys : PromptArm(ch) = "other"
    /\ UNCHANGED vars

\* the rest of the new-project arm once prompt_input has returned `name`
FinishNewProject(name) ==
    IF trim(name) = <<>>
    THEN /\ flash' = "Name cannot be empty"
         /\ pc' = "browsing"
         /\ UNCHANGED <<state, fs, display, exit_status>>
    ELSE LET c == create_new_project(fs, env.git, trim(name))
         IN /\ fs' = c.fs
            /\ IF c.res = "ok"
               THEN /\ flash' = "Project created"
                    /\ LET r == scan_projects(c.fs, env)
                       IN IF r.ok
                          THEN /\ state' = rebuild_filter([state EXCEPT !.projects = r.v])
                               /\ pc' = "browsing"
                               /\ UNCHANGED <<display, exit_status>>
                          ELSE \* `?` returns from main without endwin
                               /\ pc' = "exited"
                               /\ exit_status' = "error"
                               /\ UNCHANGED <<state, display>>
               ELSE /\ flash' = "Failed to create project"
                    /\ pc' = "browsing"
                    /\ UNCHANGED <<state, display, exit_status>>

PromptSubmit ==
    /\ pc = "prompting"
    /\ \E ch \in PromptKeys : PromptArm(ch) = "submit"
    /\ \/ trim(buf) = <<>>
       \/ trim(buf) \in DOMAIN fs
       \/ Cardinality(DOMAIN fs) < MaxFsEntries
    /\ FinishNewProject(buf)
    /\ buf' = <<>>
    /\ UNCHANGED <<env, shell_dir, handoff_trace>>

\* a cancel that leaves the loop without clearing the buffer
PromptCancel_keepbuf ==
    /\ pc = "prompting"
    /\ \E ch \in PromptKeys : PromptArm(ch) = "cancel"
    /\ FinishNewProject(buf)
    /\ buf' = <<>>
    /\ UNCHANGED <<env, shell_dir, handoff_trace>>

PromptCancel ==
    /\ pc = "prompting"
    /\ \E ch \in PromptKeys : PromptArm(ch) = "cancel"
    /\ FinishNewProject(<<>>)
    /\ buf' = <<>>
    /\ UNCHANGED <<env, shell_dir, handoff_trace>>

\* the surroundings change between two key events: the root directory becomes
\* unreadable, or readable again (the git client stays as the session found it)
EnvChange ==
    /\ pc \in {"browsing", "prompting"}
    /\ env' = [env EXCEPT !.listable = ~@]
    /\ UNCHANGED <<state, fs, pc, buf, display, flash, exit_status, shell_dir, handoff_trace>>

\* what one pass of main's loop does with the key ch: the arm that takes it
BrowseKey(ch) ==
    \/ MainArm(ch) = "quit" /\ KeyQuit
    \/ MainArm(ch) = "backspace" /\ KeyBackspace
    \/ MainArm(ch) = "up" /\ KeyUp
    \/ MainArm(ch) = "down" /\ KeyDown
    \/ MainArm(ch) = "enter" /\ KeyEnter
    \/ MainArm(ch) = "new" /\ KeyNew
    \/ MainArm(ch) = "char" /\ KeyCharOf(ch)
    \/ MainArm(ch) = "other" /\ KeyOther

Next ==
    \/ Startup
    \/ KeyQuit
    \/ KeyBackspace
    \/ KeyUp
    \/ KeyDown
    \/ KeyEnter
    \/ KeyNew
    \/ KeyChar
    \/ KeyOther
    \/ PromptChar
    \/ PromptBackspace
    \/ PromptOther
    \/ PromptSubmit
    \/ PromptCancel
    \/ EnvChange

Spec == Init /\ [][Next]_vars

----------------------------------------------------------------------------
(* Vocabulary of the properties *)

\* the loop is drawing or waiting for a key
InLoop == pc \in {"browsing", "prompting"}

\* all strings over chars of length at most n
Strs(chars, n) == UNION {[1..k -> chars] : k \in 0..n}

\* filter texts tried on every catalog the session reaches
FilterTexts == Strs({CH_SPACE, CH_COMMA, CH_R, CH_a}, MaxFilterLen)

\* display name: config.name when a config is present, else the base name
DisplayName(p) == IF p.cfg # None THEN p.cfg[1].name ELSE p.path

TagsOf(p) == IF p.cfg # None THEN p.cfg[1].tags ELSE <<>>

\* the filter of the specification: the folded text is a contiguous substring
\* of "<display_name> <comma-joined tags>" folded to lower case
Matches(p, text) ==
    contains(to_lowercase(DisplayName(p) \o <<CH_SPACE>> \o join(TagsOf(p), <<CH_COMMA>>)),
             to_lowercase(text))

MatchingIndices(projects, text) ==
    {i \in 0..(Len(projects) - 1) : Matches(projects[i + 1], text)}

StrictlyAscending(v) == \A k \in 1..(Len(v) - 1) : v[k] < v[k + 1]

----------------------------------------------------------------------------
(* Properties *)

\* C1: whenever the loop draws or waits for a key, the cursor is 0 on an
\* empty visible list and otherwise an index into the visible list.
C1_CursorInvariant ==
    InLoop =>
        IF state.filtered = <<>>
        THEN state.selected = 0
        ELSE 0 <= state.selected /\ state.selected < Len(state.filtered)

\* a narrowed list of at least two rows with the cursor on its last row
C1_Witness ==
    /\ pc = "browsing"
    /\ state.filter_text # <<>>
    /\ Len(state.filtered) >= 2
    /\ state.selected = Len(state.filtered) - 1

\* C2: whenever the loop draws or waits for a key, the visible list is the
\* strictly ascending list of exactly the catalog indices that match the
\* current filter text.
C2_VisibleIsFilterOfCatalog ==
    InLoop =>
        /\ StrictlyAscending(state.filtered)
        /\ Range(state.filtered) = MatchingIndices(state.projects, state.filter_text)

\* after a rescan that followed a creation, under a filter that hides some
\* project and shows another
C2_Witness ==
    /\ pc = "browsing"
    /\ flash = "Project created"
    /\ state.filter_text # <<>>
    /\ Len(state.filtered) >= 2
    /\ Len(state.filtered) < Len(state.projects)

\* C3: the visible list holds a project if and only if the folded filter
\* text is a substring of its folded haystack; from the unfiltered view,
\* applying any text shows exactly the projects it matches, and the empty
\* text shows every project in catalog order.
C3_FilterMatchesHaystack ==
    pc = "browsing" =>
        /\ \A i \in 0..(Len(state.projects) - 1) :
             (i \in Range(state.filtered))
                 <=> Matches(state.projects[i + 1], state.filter_text)
        /\ state.filter_text = <<>> =>
             /\ state.filtered = [k \in 1..Len(state.projects) |-> k - 1]
             /\ \A t \in FilterTexts :
                  LET s == rebuild_filter([state EXCEPT !.filter_text = t])
                  IN \A i \in 0..(Len(state.projects) - 1) :
                       (i \in Range(s.filtered)) <=> Matches(state.projects[i + 1], t)

\* a visible project whose name does not contain the filter text while one
\* of its tags does
C3_Witness ==
    /\ pc = "browsing"
    /\ state.filter_text # <<>>
    /\ \E k \in DOMAIN state.filtered :
         LET p == state.projects[state.filtered[k] + 1]
         IN /\ ~contains(to_lowercase(DisplayName(p)), to_lowercase(state.filter_text))
            /\ \E j \in DOMAIN TagsOf(p) :
                 contains(to_lowercase(TagsOf(p)[j]), to_lowercase(state.filter_text))

\* C4: up at row 0 and down at the last row leave the cursor alone, any other
\* move changes it by one, both do nothing on an empty list, and neither
\* touches the filter text, the visible list or the catalog.
C4_MoveCursorNoWrap ==
    [][ /\ KeyUp =>
            /\ state'.selected = IF state.selected = 0 THEN 0 ELSE state.selected - 1
            /\ state'.filter_text = state.filter_text
            /\ state'.filtered = state.filtered
            /\ state'.projects = state.projects
        /\ KeyDown =>
            /\ state'.selected =
                 IF state.filtered = <<>> \/ state.selected = Len(state.filtered) - 1
                 THEN state.selected
                 ELSE state.selected + 1
            /\ state'.filter_text = state.filter_text
            /\ state'.filtered = state.filtered
            /\ state'.projects = state.projects
      ]_vars

\* the cursor was moved down to the last of several rows
C4_Witness ==
    /\ pc = "browsing"
    /\ state.selected >= 1
    /\ state.selected = Len(state.filtered) - 1
    /\ state.filter_text = <<>>

\* C5: on every catalog and filter text the session reaches, and from every
\* cursor, filtering twice gives the visible list and cursor of filtering once.
C5_FilterIdempotent ==
    InLoop =>
        \A c \in 0..(Len(state.projects) + 1) :
            LET once == rebuild_filter([state EXCEPT !.selected = c])
            IN rebuild_filter(once) = once

\* a catalog on which the current filter hides some project and shows another
C5_Witness ==
    /\ pc = "browsing"
    /\ state.filtered # <<>>
    /\ Len(state.filtered) < Len(state.projects)
    /\ state.selected = 0

\* C6: once the display was initialized, the program ends only with the
\* terminal restored.
C6_DisplayTornDownOnExit ==
    (pc = "exited" /\ display # "off") => display = "restored"

\* C7: the new-project action never ends the loop: from the prompt the loop
\* stays in the prompt or returns to browsing.
C7_NewProjectReturnsToBrowsing ==
    [][pc = "prompting" => pc' \in {"prompting", "browsing"}]_vars

\* C8: when create runs on a free name and version control cannot be
\* initialized, the directory and its default config are still produced and
\* success is reported.
C8_VcsInitFailureDoesNotAbortCreate ==
    [][ (/\ PromptSubmit
         /\ trim(buf) # <<>>
         /\ trim(buf) \notin DOMAIN fs
         /\ env.git # "ok")
        => /\ trim(buf) \in DOMAIN fs'
           /\ fs'[trim(buf)].kind = "dir"
           /\ fs'[trim(buf)].cfg = CfgFile(trim(buf), <<>>)
           /\ flash' = "Project created"
      ]_vars

\* the probe of this entry fails: the client is missing, or it exits with a
\* non-zero status
ProbeFails(e, git) ==
    e.repo # "none" /\ (git \in {"missing", "failing"} \/ e.repo = "corrupt")

\* C9: a project whose directory has the marker and whose probe failed during
\* the startup scan has no version-control state.
C9_FailedProbeYieldsNone ==
    [][ Startup =>
          \A i \in DOMAIN state'.projects :
              ProbeFails(fs[state'.projects[i].path], env.git)
                  => state'.projects[i].git_state = None
      ]_vars

\* C10: the startup scan of a listable root succeeds and returns every
\* directory whose entry could be read.
C10_ScanFailsOnlyOnRoot ==
    [][ (Startup /\ env.listable) =>
          /\ pc' = "browsing"
          /\ {state'.projects[i].path : i \in DOMAIN state'.projects}
               = {n \in DOMAIN fs : fs[n].kind = "dir"}
      ]_vars

\* C11: the reload key R rescans the root and leaves the filter text alone.
C11_ReloadRescans ==
    [][ BrowseKey(CH_R) =>
          /\ state'.filter_text = state.filter_text
          /\ scan_projects(fs, env).ok => state'.projects = scan_projects(fs, env).v
      ]_vars

\* C12: a confirm on a selected project whose handoff fails flashes the error
\* and leaves the loop browsing, the process running, and the catalog, filter
\* text, visible list and cursor as they were.
C12_FailedHandoffStaysBrowsing ==
    [][ (KeyEnter /\ current_project(state) # None /\ shell_dir' = None) =>
          /\ pc' = "browsing"
          /\ exit_status' = "running"
          /\ flash' = "Terminal open failed"
          /\ state' = state
          /\ display' = "curses"
      ]_vars

\* the loop is back at getch after a failed handoff under a narrowing filter
C12_Witness ==
    /\ pc = "browsing"
    /\ flash = "Terminal open failed"
    /\ handoff_trace # <<>>
    /\ state.filter_text # <<>>

\* C13: the shell is started only by a confirm with a project selected, in the
\* directory of the project at filtered[selected], and from then on the
\* program is over: nothing changes any more.
C13_HandoffIsOneWay ==
    /\ [][ shell_dir' # shell_dir =>
             /\ KeyEnter
             /\ state.filtered # <<>>
             /\ shell_dir' =
                  Some(state.projects[state.filtered[state.selected + 1] + 1].path)
             /\ pc' = "exited"
             /\ exit_status' = "exec"
         ]_vars
    /\ [][ (KeyEnter /\ state.filtered = <<>>) => UNCHANGED <<state, pc, shell_dir>> ]_vars
    /\ [][ exit_status = "exec" => UNCHANGED vars ]_vars

\* the shell runs in a project whose catalog index differs from its row
C13_Witness ==
    /\ exit_status = "exec"
    /\ pc = "exited"
    /\ state.filtered # <<>>
    /\ state.filtered[state.selected + 1] # state.selected
    /\ shell_dir = Some(state.projects[state.filtered[state.selected + 1] + 1].path)

\* C14: submitting a name that already denotes a path under the root fails
\* and changes nothing: the file system, the catalog, the filter text, the
\* visible list and the cursor stay as they were, and the failure is flashed.
C14_CreateOnExistingPathHasNoEffect ==
    [][ (PromptSubmit /\ trim(buf) # <<>> /\ trim(buf) \in DOMAIN fs) =>
          /\ create_new_project(fs, env.git, trim(buf)).res = "exists"
          /\ fs' = fs
          /\ state' = state
          /\ flash' = "Failed to create project"
          /\ pc' = "browsing"
      ]_vars

\* a creation was refused although the git client works
C14_Witness ==
    /\ pc = "browsing"
    /\ flash = "Failed to create project"
    /\ env.git = "ok"

\* C15: when the root cannot be listed at startup the program ends at once
\* with an error status, the display never initialized and the session state
\* untouched, and nothing happens afterwards.
C15_StartupErrorAbortsBeforeLoop ==
    /\ [][ (Startup /\ ~env.listable) =>
             /\ pc' = "exited"
             /\ exit_status' = "error"
             /\ display' = "off"
             /\ state' = AppStateDefault
             /\ flash' = ""
         ]_vars
    /\ [][ (pc = "exited" /\ display = "off") => UNCHANGED vars ]_vars

\* the program ended at startup on an unlistable root
C15_Witness ==
    /\ pc = "exited"
    /\ exit_status = "error"
    /\ display = "off"
    /\ ~env.listable

\* the key ch did nothing but append itself to the filter text and re-filter
AppendedAndRefiltered(ch) ==
    /\ state'.filter_text = Append(state.filter_text, ch)
    /\ state'.projects = state.projects
    /\ StrictlyAscending(state'.filtered)
    /\ Range(state'.filtered) = MatchingIndices(state.projects, state'.filter_text)
    /\ pc' = "browsing"
    /\ exit_status' = "running"
    /\ fs' = fs

Printable(ch) == ch >= 32 /\ ch <= 126

C17_EmptyNameNeverCreates ==
    [][ (PromptCancel \/ (PromptSubmit /\ trim(buf) = <<>>)) =>
          /\ fs' = fs
          /\ state' = state
          /\ flash' = "Name cannot be empty"
          /\ pc' = "browsing"
      ]_vars

\* the empty-name error was flashed and the loop is browsing
C17_Witness ==
    /\ pc = "browsing"
    /\ flash = "Name cannot be empty"

\* C18: in every handoff, successful or not, endwin comes before the first
\* write to the terminal and before exec.
C18_TeardownComesFirst ==
    handoff_trace # <<>> =>
        \E k \in DOMAIN handoff_trace :
            /\ handoff_trace[k] = "endwin"
            /\ \A j \in DOMAIN handoff_trace :
                 handoff_trace[j] \in {"write", "exec"} => k < j

\* a handoff that replaced the process
C18_Witness ==
    /\ handoff_trace # <<>>
    /\ exit_status = "exec"
    /\ display = "restored"

\* terminal heights that leave room for at least one list row
Heights == (list_top + 2)..MaxRows

HighlightedRows(rows) ==
    LET out == draw_rows(state, rows, 0)
    IN {k \in DOMAIN out : out[k].highlighted}

\* C19 as stated: on every terminal height the drawn list highlights exactly
\* one row, the row of the project at the cursor, which is the project of the
\* detail pane.
C19_CursorRowAlwaysHighlighted ==
    (pc = "browsing" /\ state.filtered # <<>>) =>
        \A rows \in Heights :
            LET out == draw_rows(state, rows, 0)
            IN \E k \in DOMAIN out :
                 /\ HighlightedRows(rows) = {k}
                 /\ out[k].idx = state.filtered[state.selected + 1]
                 /\ draw_detail(state) # None
                 /\ draw_detail(state)[1].path = state.projects[out[k].idx + 1].path

\* C19 amended: on every terminal height the drawn rows are the first visible
\* projects in order, no row but the cursor's is highlighted, the cursor's row
\* is highlighted exactly when it fits the height (list_top + cursor <
\* rows - 1), and the detail pane shows the project at the cursor either way.
C19_HighlightOnlyWhenCursorRowFits ==
    (pc = "browsing" /\ state.filtered # <<>>) =>
        \A rows \in 0..MaxRows :
            LET out == draw_rows(state, rows, 0)
            IN /\ \A k \in DOMAIN out :
                    /\ out[k].idx = state.filtered[k]
                    /\ out[k].line = list_top + k - 1
                    /\ out[k].line < rows - 1
                    /\ out[k].highlighted <=> (k - 1 = state.selected)
               /\ (list_top + state.selected < rows - 1)
                    <=> HighlightedRows(rows) = {state.selected + 1}
               /\ (list_top + state.selected >= rows - 1)
                    <=> HighlightedRows(rows) = {}
               /\ draw_detail(state) # None
               /\ draw_detail(state)[1].path
                    = state.projects[state.filtered[state.selected + 1] + 1].path

\* on the smallest usable height the cursor is below the last drawn row: no
\* row is highlighted while the detail pane shows a project
C19_Witness ==
    /\ pc = "browsing"
    /\ state.filtered # <<>>
    /\ state.filter_text # <<>>
    /\ draw_rows(state, list_top + 2, 0) # <<>>
    /\ HighlightedRows(list_top + 2) = {}
    /\ draw_detail(state) # None

\* C20: typing a printable character that is appended and then pressing
\* backspace gives back the filter text and the visible list, and leaves the
\* cursor where the first re-filter put it, never above its earlier value.
C20_TypeThenBackspace ==
    pc = "browsing" =>
        \A ch \in Keys :
            MainArm(ch) = "char" =>
                LET typed == key_char(state, ch)
                    back == key_backspace(typed)
                IN /\ typed.filter_text = Append(state.filter_text, ch)
                   /\ back.filter_text = state.filter_text
                   /\ back.filtered = state.filtered
                   /\ back.projects = state.projects
                   /\ back.selected = typed.selected
                   /\ back.selected <= state.selected

\* a state reached by typing in which one more character and a backspace
\* leave the cursor strictly below where it was
C20_Witness ==
    /\ pc = "browsing"
    /\ state.filter_text # <<>>
    /\ \E ch \in Keys :
         /\ MainArm(ch) = "char"
         /\ key_backspace(key_char(state, ch)).selected < state.selected

====
